---- MODULE Spec2Model ----
(***************************************************************************)
(* MinoPac: the maze model (src/minopac/maze.py), the player movement     *)
(* controller (src/minopac/entities/player.py) and the game state          *)
(* (src/minopac/game.py).                                                  *)
(*                                                                         *)
(* Representation.                                                         *)
(*  - A grid coordinate is a pair <<x, y>>; Python's None is the empty     *)
(*    tuple.                                                               *)
(*  - Time is counted in whole quanta (Game.run derives dt from            *)
(*    clock.tick, a whole number of milliseconds), so dt, movement_elapsed *)
(*    and movement_speed are naturals.                                     *)
(*  - progress = movement_elapsed / movement_speed is the rational         *)
(*    <<numerator, denominator>>.                                          *)
(*  - A pixel coordinate is held in sub-pixels: the real value times       *)
(*    SubPixel, so that every interpolated position is an exact integer.   *)
(***************************************************************************)
EXTENDS Integers, Sequences, FiniteSets, TLC

VARIABLES maze, player, game, last

vars == <<maze, player, game, last>>

None == <<>>

----------------------------------------------------------------------------
(* Bounds of the model *)

MaxSpeed == 3      \* movement_speed ranges over 1..MaxSpeed quanta
MaxDt == 3         \* dt of one update ranges over 0..MaxDt quanta
Margin == 1        \* queried coordinates reach Margin tiles outside the grid
MaxSpawned == 4    \* next_ghost_spawn_location is called while fewer ghosts were spawned
MaxRows == 2       \* a raw layout handed to from_strings has 0..MaxRows rows
MaxCols == 2       \* each of 0..MaxCols characters
MaxEvents == 1     \* one handle_events call pumps 0..MaxEvents events
MaxHits == 3       \* handle_player_hit is called while lives > 3 - MaxHits
PowerQuanta == 4   \* POWER_DURATION in quanta

Speeds == 1..MaxSpeed
DTs == 0..MaxDt

RECURSIVE Factorial(_)
Factorial(n) == IF n <= 1 THEN 1 ELSE n * Factorial(n - 1)

\* every progress k/s with s \in Speeds maps a whole pixel to whole sub-pixels
SubPixel == Factorial(MaxSpeed)

----------------------------------------------------------------------------
(* constants.py *)

TILE_SIZE == 36

\* 10.0 seconds in constants.py, fifty times PLAYER_MOVE_TIME; scaled down to
\* a few quanta, still longer than one move at any speed in Speeds
POWER_DURATION == PowerQuanta

\* 0.2 seconds in constants.py, twelve frames at FPS; in quanta, the slowest
\* speed of Speeds, so that a move spans several updates
PLAYER_MOVE_TIME == MaxSpeed

UP == <<0, -1>>
DOWN == <<0, 1>>
LEFT == <<-1, 0>>
RIGHT == <<1, 0>>

\* Game.key_to_direction: the four direction intents the input loop can queue
key_to_direction == {LEFT, RIGHT, UP, DOWN}

----------------------------------------------------------------------------
(* Level layouts: rows of characters, as handed to Maze.from_strings *)

\* 3 x 3: tunnel row open on both edges, a bottom row whose seam is walled,
\* open tiles on the top and bottom rows
LayoutTunnel ==
    << <<".", "#", "o">>,
       <<" ", "P", ".">>,
       <<"#", "G", ".">> >>

\* 2 x 2: every horizontal neighbour is also the wrapped neighbour
LayoutNarrow ==
    << <<"P", ".">>,
       <<"O", "#">> >>

\* 4 x 1, no player marker: player_spawn defaults to (0, 0), here a wall
LayoutNoSpawn ==
    << <<"#", ".", "G", "G">> >>

\* 1 x 2: a single column, the wrapped neighbour of a tile is itself
LayoutColumn ==
    << <<"P">>,
       <<".">> >>

\* 6 x 1: the player's tile is walled in on both sides (the seam included),
\* three ghost spawns in a separate open stretch
LayoutIslands ==
    << <<"P", "#", "G", "G", "G", "#">> >>

\* 2 x 2: every cell is a wall
LayoutSolid ==
    << <<"#", "#">>,
       <<"#", "#">> >>

Layouts ==
    {LayoutTunnel, LayoutNarrow, LayoutNoSpawn, LayoutColumn, LayoutIslands, LayoutSolid}

----------------------------------------------------------------------------
(* vector.py *)

\* t is the rational <<num, den>>; start and end are in sub-pixels
vec_lerp(start, end, t) ==
    << start[1] + ((end[1] - start[1]) * t[1]) \div t[2],
       start[2] + ((end[2] - start[2]) * t[1]) \div t[2] >>

----------------------------------------------------------------------------
(* maze.py *)

RECURSIVE RowMajor(_, _)
\* the coordinates of rows y.. of the layout in enumeration order
RowMajor(rows, y) ==
    IF y > Len(rows) THEN <<>>
    ELSE [x \in 1..Len(rows[y]) |-> <<x - 1, y - 1>>] \o RowMajor(rows, y + 1)

CharAt(rows, c) == rows[c[2] + 1][c[1] + 1]

TilesOf(rows, chars) ==
    {RowMajor(rows, 1)[i] : i \in {j \in 1..Len(RowMajor(rows, 1)) :
                                      CharAt(rows, RowMajor(rows, 1)[j]) \in chars}}

from_strings(layout) ==
    LET rows == layout
        cells == RowMajor(rows, 1)
        IsG(c) == CharAt(rows, c) = "G"
        IsP(c) == CharAt(rows, c) = "P"
        marks == SelectSeq(cells, IsP)
    IN  [ layout |-> rows,
          pellets |-> TilesOf(rows, {"."}),
          power_pellets |-> TilesOf(rows, {"o", "O"}),
          wall_tiles |-> TilesOf(rows, {"#"}),
          width |-> Len(rows[1]),
          height |-> Len(rows),
          amount_ghosts_spawned |-> 0,
          ghost_spawns |-> SelectSeq(cells, IsG),
          player_spawn |-> IF marks = <<>> THEN <<0, 0>> ELSE marks[Len(marks)] ]

\* Maze.from_strings: the exception the parse ends with, "" when it returns
\* a maze (rows[0] of an empty layout is the one failing step)
from_strings_raised(layout) == IF Len(layout) = 0 THEN "IndexError" ELSE ""

pixel_width(m) == m.width * TILE_SIZE * SubPixel

pixel_height(m) == m.height * TILE_SIZE * SubPixel

\* variant: only the rows are bounds-checked
is_wall_rows_only(m, grid) ==
    LET x == grid[1]
        y == grid[2]
    IN  IF y < 0 \/ y >= m.height
        THEN TRUE
        ELSE <<x, y>> \in m.wall_tiles

is_wall(m, grid) ==
    LET x == grid[1]
        y == grid[2]
    IN  IF x < 0 \/ y < 0 \/ x >= m.width \/ y >= m.height
        THEN TRUE
        ELSE <<x, y>> \in m.wall_tiles

\* variant: the wraparound is left out
get_cell_in_direction_no_wrap(m, position, direction) ==
    LET x == position[1] + direction[1]
        y == position[2] + direction[2]
    IN  IF y < 0 \/ y >= m.height THEN None ELSE <<x, y>>

get_cell_in_direction(m, position, direction) ==
    LET x0 == position[1] + direction[1]
        y == position[2] + direction[2]
        x == (x0 + m.width) % m.width
    IN  IF y < 0 \/ y >= m.height THEN None ELSE <<x, y>>

\* (grid + 0.5) * TILE_SIZE, in sub-pixels
grid_to_pixel(grid) ==
    << ((2 * grid[1] + 1) * TILE_SIZE * SubPixel) \div 2,
       ((2 * grid[2] + 1) * TILE_SIZE * SubPixel) \div 2 >>

\* Maze.interpolate_pixel_position, the left-to-right wrap not recognised
interpolate_pixel_position_one_way(m, start, end, progress) ==
    LET sp == grid_to_pixel(start)
        ep == grid_to_pixel(end)
        width == pixel_width(m)
        end_pixel == IF start[1] = m.width - 1 /\ end[1] = 0
                     THEN <<ep[1] + width, ep[2]>> ELSE ep
        pos == vec_lerp(sp, end_pixel, progress)
    IN  IF pos[1] < 0 THEN <<pos[1] + width, pos[2]>>
        ELSE IF pos[1] >= width THEN <<pos[1] - width, pos[2]>>
        ELSE pos

interpolate_pixel_position(m, start, end, progress) ==
    LET sp == grid_to_pixel(start)
        ep == grid_to_pixel(end)
        width == pixel_width(m)
        start_x == start[1]
        end_x == end[1]
        start_pixel == IF ~(start_x = m.width - 1 /\ end_x = 0)
                          /\ (start_x = 0 /\ end_x = m.width - 1)
                       THEN <<sp[1] + width, sp[2]>> ELSE sp
        end_pixel == IF start_x = m.width - 1 /\ end_x = 0
                     THEN <<ep[1] + width, ep[2]>> ELSE ep
        pos == vec_lerp(start_pixel, end_pixel, progress)
    IN  IF pos[1] < 0 THEN <<pos[1] + width, pos[2]>>
        ELSE IF pos[1] >= width THEN <<pos[1] - width, pos[2]>>
        ELSE pos

\* what eat_pellet returns when nothing was eaten (Python's None): TLC
\* compares a string only with a string, so it is a string no tile carries
NoPellet == "None"

\* Maze.eat_pellet, a power pellet reported but left on the tile
eat_pellet_keeps_power(m, grid) ==
    IF grid \in m.pellets
    THEN [maze |-> [m EXCEPT !.pellets = @ \ {grid}], ret |-> "."]
    ELSE IF grid \in m.power_pellets
    THEN [maze |-> m, ret |-> "o"]
    ELSE [maze |-> m, ret |-> NoPellet]

\* Maze.eat_pellet: the maze after the call and the value returned
eat_pellet(m, grid) ==
    IF grid \in m.pellets
    THEN [maze |-> [m EXCEPT !.pellets = @ \ {grid}], ret |-> "."]
    ELSE IF grid \in m.power_pellets
    THEN [maze |-> [m EXCEPT !.power_pellets = @ \ {grid}], ret |-> "o"]
    ELSE [maze |-> m, ret |-> NoPellet]

\* Maze.remaining_pellets
remaining_pellets(m) == Cardinality(m.pellets) + Cardinality(m.power_pellets)

\* Maze.neighbors without the horizontal wrap
neighbors_no_wrap(m, grid) ==
    LET offsets == << <<1, 0>>, <<-1, 0>>, <<0, 1>>, <<0, -1>> >>
        candidates == [i \in 1..4 |-> <<grid[1] + offsets[i][1], grid[2] + offsets[i][2]>>]
        walkable(c) == ~is_wall(m, c)
    IN  SelectSeq(candidates, walkable)

\* Maze.neighbors: the walkable neighbours in the order they are yielded
neighbors(m, grid) ==
    LET offsets == << <<1, 0>>, <<-1, 0>>, <<0, 1>>, <<0, -1>> >>
        candidates == [i \in 1..4 |->
                          <<(grid[1] + offsets[i][1] + m.width) % m.width,
                            grid[2] + offsets[i][2]>>]
        walkable(c) == ~is_wall(m, c)
    IN  SelectSeq(candidates, walkable)

RECURSIVE find_shortest_path_for(_, _, _, _, _, _)
\* Maze.find_shortest_path, the loop over the neighbours of the dequeued
\* node from the i-th on: the path found, or the queue and the visited set
\* the loop leaves
find_shortest_path_for(nbrs, i, path, end, queue, visited) ==
    IF i > Len(nbrs)
    THEN [found |-> None, queue |-> queue, visited |-> visited]
    ELSE IF nbrs[i] = end
    THEN [found |-> Append(path, nbrs[i]), queue |-> queue, visited |-> visited]
    ELSE IF nbrs[i] \notin visited
    THEN find_shortest_path_for(nbrs, i + 1, path, end,
                                Append(queue, <<nbrs[i], Append(path, nbrs[i])>>),
                                visited \cup {nbrs[i]})
    ELSE find_shortest_path_for(nbrs, i + 1, path, end, queue, visited)

RECURSIVE find_shortest_path_while(_, _, _, _, _)
\* Maze.find_shortest_path, the loop over the queue of (node, path) pairs;
\* pops counts the nodes dequeued
find_shortest_path_while(m, end, queue, visited, pops) ==
    IF queue = <<>>
    THEN [ret |-> None, pops |-> pops]
    ELSE LET current == Head(queue)[1]
             path == Head(queue)[2]
             r == find_shortest_path_for(neighbors(m, current), 1, path, end,
                                         Tail(queue), visited)
         IN  IF r.found # None
             THEN [ret |-> r.found, pops |-> pops + 1]
             ELSE find_shortest_path_while(m, end, r.queue, r.visited, pops + 1)

\* Maze.find_shortest_path, the search started from a wall as well
find_shortest_path_from_wall(m, start, end) ==
    IF is_wall(m, end)
    THEN [ret |-> None, pops |-> 0]
    ELSE IF start = end
    THEN [ret |-> <<start>>, pops |-> 0]
    ELSE find_shortest_path_while(m, end, << <<start, <<start>>>> >>, {start}, 0)

\* Maze.find_shortest_path: the path returned (None when there is none) and
\* the number of nodes the search dequeued
find_shortest_path(m, start, end) ==
    IF is_wall(m, start) \/ is_wall(m, end)
    THEN [ret |-> None, pops |-> 0]
    ELSE IF start = end
    THEN [ret |-> <<start>>, pops |-> 0]
    ELSE find_shortest_path_while(m, end, << <<start, <<start>>>> >>, {start}, 0)

RECURSIVE find_open_tile_for(_, _, _, _, _)
\* Maze.find_open_tile, the loop over the four offsets of the dequeued tile
\* from the i-th on: the open tile found, or the queue and the visited set
\* the loop leaves
find_open_tile_for(m, tile, i, queue, visited) ==
    LET offsets == << <<1, 0>>, <<-1, 0>>, <<0, 1>>, <<0, -1>> >>
        nx == tile[1] + offsets[i][1]
        ny == tile[2] + offsets[i][2]
    IN  IF i > 4
        THEN [found |-> None, queue |-> queue, visited |-> visited]
        ELSE IF nx < 0 \/ ny < 0 \/ nx >= m.width \/ ny >= m.height
        THEN find_open_tile_for(m, tile, i + 1, queue, visited)
        ELSE IF <<nx, ny>> \in visited
        THEN find_open_tile_for(m, tile, i + 1, queue, visited)
        ELSE IF ~is_wall(m, <<nx, ny>>)
        THEN [found |-> <<nx, ny>>, queue |-> queue, visited |-> visited]
        ELSE find_open_tile_for(m, tile, i + 1, Append(queue, <<nx, ny>>),
                                visited \cup {<<nx, ny>>})

RECURSIVE find_open_tile_while(_, _, _, _)
\* Maze.find_open_tile, the loop over the queue; pops counts the tiles
\* dequeued
find_open_tile_while(m, queue, visited, pops) ==
    IF queue = <<>>
    THEN [ret |-> None, raised |-> "ValueError", pops |-> pops]
    ELSE LET r == find_open_tile_for(m, Head(queue), 1, Tail(queue), visited)
         IN  IF r.found # None
             THEN [ret |-> r.found, raised |-> "", pops |-> pops + 1]
             ELSE find_open_tile_while(m, r.queue, r.visited, pops + 1)

\* Maze.find_open_tile, handing back preferred when the search finds nothing
find_open_tile_never_raises(m, preferred) ==
    IF ~is_wall(m, preferred)
    THEN [ret |-> preferred, raised |-> "", pops |-> 0]
    ELSE LET r == find_open_tile_while(m, <<preferred>>, {preferred}, 0)
         IN  IF r.raised = "" THEN r ELSE [r EXCEPT !.ret = preferred, !.raised = ""]

\* Maze.find_open_tile: the tile returned (None when the call raised), the
\* exception raised and the number of tiles the search dequeued
find_open_tile(m, preferred) ==
    IF ~is_wall(m, preferred)
    THEN [ret |-> preferred, raised |-> "", pops |-> 0]
    ELSE find_open_tile_while(m, <<preferred>>, {preferred}, 0)

\* Maze.next_ghost_spawn_location, the counter advanced before the lookup
next_ghost_spawn_location_increments_first(m) ==
    IF Len(m.ghost_spawns) = 0
    THEN [maze |-> m, ret |-> None, raised |-> "ZeroDivisionError"]
    ELSE [maze |-> [m EXCEPT !.amount_ghosts_spawned = @ + 1],
          ret |-> m.ghost_spawns[((m.amount_ghosts_spawned + 1) % Len(m.ghost_spawns)) + 1],
          raised |-> ""]

\* Maze.next_ghost_spawn_location: the maze after the call, the location
\* returned and the exception raised (the modulo by an empty list's length)
next_ghost_spawn_location(m) ==
    IF Len(m.ghost_spawns) = 0
    THEN [maze |-> m, ret |-> None, raised |-> "ZeroDivisionError"]
    ELSE [maze |-> [m EXCEPT !.amount_ghosts_spawned = @ + 1],
          ret |-> m.ghost_spawns[(m.amount_ghosts_spawned % Len(m.ghost_spawns)) + 1],
          raised |-> ""]

----------------------------------------------------------------------------
(* entities/player.py *)

\* Player.__init__
NewPlayer(m, movement_speed) ==
    [ spawn |-> m.player_spawn,
      grid_pos |-> m.player_spawn,
      target_grid_pos |-> None,
      pixel_pos |-> grid_to_pixel(m.player_spawn),
      facing |-> RIGHT,
      radius |-> TILE_SIZE \div 2 - 2,
      lives |-> 3,
      movement_speed |-> movement_speed,
      movement_elapsed |-> 0,
      current_direction |-> None,
      next_direction |-> None ]

\* variant: pixel_pos is not recomputed
reset_stale_pixel(m, p) ==
    [p EXCEPT !.grid_pos = p.spawn,
              !.target_grid_pos = None,
              !.facing = RIGHT,
              !.movement_elapsed = 0,
              !.current_direction = None,
              !.next_direction = None]

\* variant: the queued direction survives
reset_keeps_queue(m, p) ==
    [p EXCEPT !.grid_pos = p.spawn,
              !.target_grid_pos = None,
              !.pixel_pos = grid_to_pixel(p.spawn),
              !.facing = RIGHT,
              !.movement_elapsed = 0,
              !.current_direction = None]

reset(m, p) ==
    [p EXCEPT !.grid_pos = p.spawn,
              !.target_grid_pos = None,
              !.pixel_pos = grid_to_pixel(p.spawn),
              !.facing = RIGHT,
              !.movement_elapsed = 0,
              !.current_direction = None,
              !.next_direction = None]

\* variant: a request for the opposite direction reverses a move in flight
set_next_direction_reverses(p, direction) ==
    IF /\ p.target_grid_pos # None
       /\ p.current_direction # None
       /\ direction = <<0 - p.current_direction[1], 0 - p.current_direction[2]>>
    THEN [p EXCEPT !.next_direction = direction,
                   !.current_direction = direction,
                   !.grid_pos = p.target_grid_pos,
                   !.target_grid_pos = p.grid_pos]
    ELSE [p EXCEPT !.next_direction = direction]

set_next_direction(p, direction) ==
    [p EXCEPT !.next_direction = direction]

\* variant: only leaving the rows of the maze blocks a move
can_move_through_walls(m, p, direction) ==
    LET target == get_cell_in_direction(m, p.grid_pos, direction)
    IN  IF target = None THEN FALSE ELSE TRUE

\* variant: the wall test is made on the unwrapped neighbour
can_move_unwrapped(m, p, direction) ==
    LET target == <<p.grid_pos[1] + direction[1], p.grid_pos[2] + direction[2]>>
    IN  IF is_wall(m, target) THEN FALSE ELSE TRUE

can_move(m, p, direction) ==
    LET target == get_cell_in_direction(m, p.grid_pos, direction)
    IN  IF target = None \/ is_wall(m, target) THEN FALSE ELSE TRUE

\* variant: the time beyond movement_speed is carried over the arrival
_update_interpolation_keeps_surplus(m, p, dt) ==
    IF p.target_grid_pos = None THEN p
    ELSE
      LET elapsed == IF p.movement_elapsed + dt <= p.movement_speed
                     THEN p.movement_elapsed + dt ELSE p.movement_speed
          progress == <<elapsed, p.movement_speed>>
          pixel == interpolate_pixel_position(m, p.grid_pos, p.target_grid_pos, progress)
      IN  IF elapsed >= p.movement_speed
          THEN [p EXCEPT !.pixel_pos = pixel,
                         !.grid_pos = p.target_grid_pos,
                         !.target_grid_pos = None,
                         !.movement_elapsed = p.movement_elapsed + dt - p.movement_speed]
          ELSE [p EXCEPT !.pixel_pos = pixel,
                         !.movement_elapsed = elapsed]

\* variant: arrival is tested with > instead of >=
_update_interpolation_strict_arrival(m, p, dt) ==
    IF p.target_grid_pos = None THEN p
    ELSE
      LET elapsed == IF p.movement_elapsed + dt <= p.movement_speed
                     THEN p.movement_elapsed + dt ELSE p.movement_speed
          progress == <<elapsed, p.movement_speed>>
          pixel == interpolate_pixel_position(m, p.grid_pos, p.target_grid_pos, progress)
      IN  IF elapsed > p.movement_speed
          THEN [p EXCEPT !.pixel_pos = pixel,
                         !.grid_pos = p.target_grid_pos,
                         !.target_grid_pos = None,
                         !.movement_elapsed = 0]
          ELSE [p EXCEPT !.pixel_pos = pixel,
                         !.movement_elapsed = elapsed]

\* variant: movement_elapsed is not zeroed on arrival
_update_interpolation_keeps_elapsed(m, p, dt) ==
    IF p.target_grid_pos = None THEN p
    ELSE
      LET elapsed == IF p.movement_elapsed + dt <= p.movement_speed
                     THEN p.movement_elapsed + dt ELSE p.movement_speed
          progress == <<elapsed, p.movement_speed>>
          pixel == interpolate_pixel_position(m, p.grid_pos, p.target_grid_pos, progress)
      IN  IF elapsed >= p.movement_speed
          THEN [p EXCEPT !.pixel_pos = pixel,
                         !.grid_pos = p.target_grid_pos,
                         !.target_grid_pos = None,
                         !.movement_elapsed = elapsed]
          ELSE [p EXCEPT !.pixel_pos = pixel,
                         !.movement_elapsed = elapsed]

_update_interpolation(m, p, dt) ==
    IF p.target_grid_pos = None THEN p
    ELSE
      LET elapsed == IF p.movement_elapsed + dt <= p.movement_speed
                     THEN p.movement_elapsed + dt ELSE p.movement_speed
          progress == <<elapsed, p.movement_speed>>
          pixel == interpolate_pixel_position(m, p.grid_pos, p.target_grid_pos, progress)
      IN  IF elapsed >= p.movement_speed
          THEN [p EXCEPT !.pixel_pos = pixel,
                         !.grid_pos = p.target_grid_pos,
                         !.target_grid_pos = None,
                         !.movement_elapsed = 0]
          ELSE [p EXCEPT !.pixel_pos = pixel,
                         !.movement_elapsed = elapsed]

\* variant: the queued direction is consumed whether legal or not
_try_start_move_drops_queue(m, p) ==
    LET promoted == IF p.next_direction # None /\ can_move(m, p, p.next_direction)
                    THEN [p EXCEPT !.current_direction = p.next_direction,
                                   !.next_direction = None]
                    ELSE [p EXCEPT !.next_direction = None]
    IN  IF promoted.current_direction # None
           /\ can_move(m, promoted, promoted.current_direction)
        THEN [promoted EXCEPT
                !.facing = promoted.current_direction,
                !.movement_elapsed = 0,
                !.target_grid_pos =
                    get_cell_in_direction(m, promoted.grid_pos, promoted.current_direction)]
        ELSE promoted

\* variant: a blocked current_direction is forgotten
_try_start_move_forgets_direction(m, p) ==
    LET promoted == IF p.next_direction # None /\ can_move(m, p, p.next_direction)
                    THEN [p EXCEPT !.current_direction = p.next_direction,
                                   !.next_direction = None]
                    ELSE p
    IN  IF promoted.current_direction # None
           /\ can_move(m, promoted, promoted.current_direction)
        THEN [promoted EXCEPT
                !.facing = promoted.current_direction,
                !.movement_elapsed = 0,
                !.target_grid_pos =
                    get_cell_in_direction(m, promoted.grid_pos, promoted.current_direction)]
        ELSE [promoted EXCEPT !.current_direction = None]

_try_start_move(m, p) ==
    LET promoted == IF p.next_direction # None /\ can_move(m, p, p.next_direction)
                    THEN [p EXCEPT !.current_direction = p.next_direction,
                                   !.next_direction = None]
                    ELSE p
    IN  IF promoted.current_direction # None
           /\ can_move(m, promoted, promoted.current_direction)
        THEN [promoted EXCEPT
                !.facing = promoted.current_direction,
                !.movement_elapsed = 0,
                !.target_grid_pos =
                    get_cell_in_direction(m, promoted.grid_pos, promoted.current_direction)]
        ELSE promoted


----------------------------------------------------------------------------
(* game.py.  A world w is the maze, the player and the game's own fields.  *)

\* Game.__init__: the fields beside the maze and the player; repeat_timer is
\* an attribute only handle_player_hit creates
NewGame ==
    [ score |-> 0,
      power_time_remaining |-> 0,
      game_over |-> FALSE,
      win |-> FALSE,
      moves_taken |-> 0,
      repeat_timer |-> None ]

\* Player.update
player_update(m, p, dt) ==
    _update_interpolation(m, IF p.target_grid_pos = None THEN _try_start_move(m, p) ELSE p, dt)

\* Game.reset, the eaten maze kept
game_reset_keeps_maze(w) ==
    [ maze |-> w.maze,
      player |-> NewPlayer(w.maze, PLAYER_MOVE_TIME),
      game |-> [w.game EXCEPT !.score = 0,
                              !.power_time_remaining = 0,
                              !.game_over = FALSE,
                              !.win = FALSE,
                              !.moves_taken = 0] ]

\* Game.reset: the maze is parsed anew from the level layout (the layout the
\* maze was built from) and a new player is made with the default speed,
\* PLAYER_MOVE_TIME
game_reset(w) ==
    LET m == from_strings(w.maze.layout)
    IN  [ maze |-> m,
          player |-> NewPlayer(m, PLAYER_MOVE_TIME),
          game |-> [w.game EXCEPT !.score = 0,
                                  !.power_time_remaining = 0,
                                  !.game_over = FALSE,
                                  !.win = FALSE,
                                  !.moves_taken = 0] ]

\* Game.resolve_player_tile, a power pellet scored as a pellet
resolve_player_tile_flat_score(w) ==
    LET r == eat_pellet(w.maze, w.player.grid_pos)
        scored == IF r.ret = "." THEN [w.game EXCEPT !.score = @ + 10]
                  ELSE IF r.ret = "o"
                  THEN [w.game EXCEPT !.score = @ + 10,
                                      !.power_time_remaining = POWER_DURATION]
                  ELSE w.game
    IN  [ maze |-> r.maze,
          player |-> w.player,
          game |-> IF remaining_pellets(r.maze) = 0
                   THEN [scored EXCEPT !.game_over = TRUE, !.win = TRUE]
                   ELSE scored ]

\* Game.resolve_player_tile, the win declared with one pellet still left
resolve_player_tile_wins_early(w) ==
    LET r == eat_pellet(w.maze, w.player.grid_pos)
        scored == IF r.ret = "." THEN [w.game EXCEPT !.score = @ + 10]
                  ELSE IF r.ret = "o"
                  THEN [w.game EXCEPT !.score = @ + 50,
                                      !.power_time_remaining = POWER_DURATION]
                  ELSE w.game
    IN  [ maze |-> r.maze,
          player |-> w.player,
          game |-> IF remaining_pellets(r.maze) <= 1
                   THEN [scored EXCEPT !.game_over = TRUE, !.win = TRUE]
                   ELSE scored ]

\* Game.resolve_player_tile, the pellet taken from the tile being entered
resolve_player_tile_eats_ahead(w) ==
    LET r == eat_pellet(w.maze, IF w.player.target_grid_pos = None
                                THEN w.player.grid_pos ELSE w.player.target_grid_pos)
        scored == IF r.ret = "." THEN [w.game EXCEPT !.score = @ + 10]
                  ELSE IF r.ret = "o"
                  THEN [w.game EXCEPT !.score = @ + 50,
                                      !.power_time_remaining = POWER_DURATION]
                  ELSE w.game
    IN  [ maze |-> r.maze,
          player |-> w.player,
          game |-> IF remaining_pellets(r.maze) = 0
                   THEN [scored EXCEPT !.game_over = TRUE, !.win = TRUE]
                   ELSE scored ]

\* Game.resolve_player_tile
resolve_player_tile(w) ==
    LET r == eat_pellet(w.maze, w.player.grid_pos)
        scored == IF r.ret = "." THEN [w.game EXCEPT !.score = @ + 10]
                  ELSE IF r.ret = "o"
                  THEN [w.game EXCEPT !.score = @ + 50,
                                      !.power_time_remaining = POWER_DURATION]
                  ELSE w.game
    IN  [ maze |-> r.maze,
          player |-> w.player,
          game |-> IF remaining_pellets(r.maze) = 0
                   THEN [scored EXCEPT !.game_over = TRUE, !.win = TRUE]
                   ELSE scored ]

\* Game.check_collisions: no ghost exists, nothing is checked
check_collisions(w) == w

\* Game.update_power_timer
update_power_timer(w, dt) ==
    IF w.game.power_time_remaining <= 0
    THEN w
    ELSE IF w.game.power_time_remaining - dt <= 0
    THEN [w EXCEPT !.game.power_time_remaining = 0]
    ELSE [w EXCEPT !.game.power_time_remaining = @ - dt]

\* Game.update
game_update(w, dt) ==
    IF w.game.game_over
    THEN w
    ELSE update_power_timer(
             check_collisions(
                 resolve_player_tile(
                     [w EXCEPT !.player = player_update(w.maze, w.player, dt)])),
             dt)

\* Game.handle_player_hit
handle_player_hit(w) ==
    LET hit == [w.player EXCEPT !.lives = @ - 1]
    IN  IF hit.lives <= 0
        THEN [w EXCEPT !.player = hit, !.game.game_over = TRUE, !.game.win = FALSE]
        ELSE [w EXCEPT !.player = reset(w.maze, hit),
                       !.game.power_time_remaining = 0,
                       !.game.repeat_timer = hit.movement_speed]

\* the keys of Game.key_to_direction's mapping, the reset key and one key
\* the game does not know
Keys ==
    {"K_LEFT", "K_a", "K_RIGHT", "K_d", "K_UP", "K_w", "K_DOWN", "K_s", "K_r", "K_SPACE"}

\* Game.key_to_direction: mapping.get(key)
mapping(key) ==
    IF key \in {"K_LEFT", "K_a"} THEN LEFT
    ELSE IF key \in {"K_RIGHT", "K_d"} THEN RIGHT
    ELSE IF key \in {"K_UP", "K_w"} THEN UP
    ELSE IF key \in {"K_DOWN", "K_s"} THEN DOWN
    ELSE None

\* the events pumped in the model: QUIT, or KEYDOWN with a key; each
\* direction by one of its two keys
Events == {"QUIT", "K_LEFT", "K_d", "K_UP", "K_s", "K_r", "K_SPACE"}

\* Game.handle_events' loop body, direction keys taken while the game is over
handle_event_steers_when_over(w, key) ==
    IF key = "K_r" /\ w.game.game_over
    THEN game_reset(w)
    ELSE IF mapping(key) # None
    THEN [w EXCEPT !.player = set_next_direction(w.player, mapping(key))]
    ELSE w

\* Game.handle_events, the body of the loop for one KEYDOWN event
handle_event(w, key) ==
    IF key = "K_r" /\ w.game.game_over
    THEN game_reset(w)
    ELSE IF w.game.game_over
    THEN w
    ELSE IF mapping(key) # None
    THEN [w EXCEPT !.player = set_next_direction(w.player, mapping(key))]
    ELSE w

RECURSIVE handle_events(_, _, _)
\* Game.handle_events on the pumped events from the i-th on: the world it
\* leaves and the exception it ends with (QUIT raises SystemExit at once)
handle_events(w, events, i) ==
    IF i > Len(events)
    THEN [w |-> w, raised |-> ""]
    ELSE IF events[i] = "QUIT"
    THEN [w |-> w, raised |-> "SystemExit"]
    ELSE handle_events(handle_event(w, events[i]), events, i + 1)

----------------------------------------------------------------------------
(* The player driven call by call.  last records the latest call, its      *)
(* arguments, the player it was made on and (for maze queries) its result. *)

\* m and g are the maze and the game the call was made on; raised names the
\* exception the call ended with, "" when it returned; steps counts the
\* iterations of the call's search loop
Call(op, dt, direction, pre) ==
    [op |-> op, dt |-> dt, direction |-> direction, pre |-> pre, arg |-> None, ret |-> None,
     m |-> maze, g |-> game, raised |-> "", steps |-> 0]

Init ==
    /\ \E layout \in Layouts : maze = from_strings(layout)
    /\ \E s \in Speeds : player = NewPlayer(maze, s)
    /\ game = NewGame
    /\ last = Call("__init__", 0, None, player)

\* Player.update: started is the player after the first statement
Player_update(dt) ==
    \E started \in {IF player.target_grid_pos = None
                     THEN _try_start_move(maze, player) ELSE player} :
        /\ player' = _update_interpolation(maze, started, dt)
        /\ last' = Call("update", dt, None, player)
        /\ UNCHANGED <<maze, game>>

Player_set_next_direction(direction) ==
    /\ player' = set_next_direction(player, direction)
    /\ last' = Call("set_next_direction", 0, direction, player)
    /\ UNCHANGED <<maze, game>>

Player_reset ==
    /\ player' = reset(maze, player)
    /\ last' = Call("reset", 0, None, player)
    /\ UNCHANGED <<maze, game>>

Player_can_move(direction) ==
    /\ last' = [Call("can_move", 0, direction, player) EXCEPT
                    !.ret = can_move(maze, player, direction)]
    /\ UNCHANGED <<maze, player, game>>

Next ==
    \/ \E dt \in DTs : Player_update(dt)
    \/ \E d \in key_to_direction : Player_set_next_direction(d)
    \/ Player_reset
    \/ \E d \in key_to_direction : Player_can_move(d)

Spec == Init /\ [][Next]_vars

\* The player under update ticks and direction requests only, the frame
\* loop (Game.run) ticking it again and again with dt > 0.
Tick == \E dt \in DTs \ {0} : Player_update(dt)

NextMove ==
    \/ \E dt \in DTs : Player_update(dt)
    \/ \E d \in key_to_direction : Player_set_next_direction(d)

SpecMove == Init /\ [][NextMove]_vars /\ WF_vars(Tick)

----------------------------------------------------------------------------
(* The maze queried call by call, on coordinates inside the grid and up to *)
(* Margin tiles outside it.                                                *)

Grid(m) == (0..(m.width - 1)) \X (0..(m.height - 1))

Coords(m) == ((0 - Margin)..(m.width - 1 + Margin)) \X ((0 - Margin)..(m.height - 1 + Margin))

Query(op, arg, direction, ret) ==
    [op |-> op, dt |-> 0, direction |-> direction, pre |-> player, arg |-> arg, ret |-> ret,
     m |-> maze, g |-> game, raised |-> "", steps |-> 0]

Maze_is_wall(grid) ==
    /\ last' = Query("is_wall", grid, None, is_wall(maze, grid))
    /\ UNCHANGED <<maze, player, game>>

Maze_get_cell_in_direction(position, direction) ==
    /\ last' = Query("get_cell_in_direction", position, direction,
                     get_cell_in_direction(maze, position, direction))
    /\ UNCHANGED <<maze, player, game>>

Maze_eat_pellet(grid) ==
    \E r \in {eat_pellet(maze, grid)} :
        /\ maze' = r.maze
        /\ last' = Query("eat_pellet", grid, None, r.ret)
        /\ UNCHANGED <<player, game>>

Maze_next_ghost_spawn_location ==
    /\ maze.amount_ghosts_spawned < MaxSpawned
    /\ \E r \in {next_ghost_spawn_location(maze)} :
        /\ maze' = r.maze
        /\ last' = [Query("next_ghost_spawn_location", None, None, r.ret)
                       EXCEPT !.raised = r.raised]
        /\ UNCHANGED <<player, game>>

NextMaze ==
    \/ \E c \in Coords(maze) : Maze_is_wall(c)
    \/ \E c \in Grid(maze), d \in key_to_direction : Maze_get_cell_in_direction(c, d)
    \/ \E c \in Coords(maze) : Maze_eat_pellet(c)
    \/ Maze_next_ghost_spawn_location

SpecMaze == Init /\ [][NextMaze]_vars

----------------------------------------------------------------------------
(* The searches of the maze, query by query.  They read the walls and the  *)
(* size of the maze only, so they are run on the mazes as built, with one  *)
(* player speed.                                                           *)

InitSearch == Init /\ player.movement_speed = 1

Maze_find_shortest_path(start, end) ==
    \E r \in {find_shortest_path(maze, start, end)} :
        /\ last' = [Query("find_shortest_path", <<start, end>>, None, r.ret)
                       EXCEPT !.steps = r.pops]
        /\ UNCHANGED <<maze, player, game>>

Maze_find_open_tile(preferred) ==
    \E r \in {find_open_tile(maze, preferred)} :
        /\ last' = [Query("find_open_tile", preferred, None, r.ret)
                       EXCEPT !.steps = r.pops, !.raised = r.raised]
        /\ UNCHANGED <<maze, player, game>>

NextSearch ==
    \/ \E start \in Coords(maze), end \in Coords(maze) : Maze_find_shortest_path(start, end)
    \/ \E preferred \in Coords(maze) : Maze_find_open_tile(preferred)

SpecSearch == InitSearch /\ [][NextSearch]_vars

----------------------------------------------------------------------------
(* Maze.interpolate_pixel_position applied to the arguments                *)
(* Player._update_interpolation hands it: a cell, a cell one step from it  *)
(* and a progress elapsed / movement_speed.                                *)

Progresses == {<<k, speed>> : k \in 0..MaxSpeed, speed \in Speeds} \ {pr \in (0..MaxSpeed) \X Speeds : pr[1] > pr[2]}

Maze_interpolate_pixel_position(start, direction, progress) ==
    /\ get_cell_in_direction(maze, start, direction) # None
    /\ \E end \in {get_cell_in_direction(maze, start, direction)} :
        last' = Query("interpolate_pixel_position", <<start, end, progress>>, direction,
                      interpolate_pixel_position(maze, start, end, progress))
    /\ UNCHANGED <<maze, player, game>>

NextPixel ==
    \E start \in Grid(maze), direction \in key_to_direction, progress \in Progresses :
        Maze_interpolate_pixel_position(start, direction, progress)

SpecPixel == InitSearch /\ [][NextPixel]_vars

----------------------------------------------------------------------------
(* Maze.from_strings applied to raw layouts: every list of at most MaxRows *)
(* rows of at most MaxCols characters, ragged and empty ones included.     *)

\* the characters from_strings tells apart, and one it ignores
Chars == {"#", ".", "o", "O", "G", "P", " "}

Rows == UNION {[1..n -> Chars] : n \in 0..MaxCols}

RawLayouts == UNION {[1..k -> Rows] : k \in 0..MaxRows}

\* no maze is built yet; last holds the layout about to be parsed
InitBuild ==
    /\ maze = None
    /\ player = None
    /\ game = NewGame
    /\ \E layout \in RawLayouts : last = [Call("layout", 0, None, None) EXCEPT !.arg = layout]

Maze_from_strings ==
    /\ last.op = "layout"
    /\ \E raised \in {from_strings_raised(last.arg)} :
        /\ maze' = IF raised = "" THEN from_strings(last.arg) ELSE None
        /\ last' = [Call("from_strings", 0, None, None)
                       EXCEPT !.arg = last.arg, !.raised = raised]
        /\ UNCHANGED <<player, game>>

NextBuild == Maze_from_strings

SpecBuild == InitBuild /\ [][NextBuild]_vars

----------------------------------------------------------------------------
(* The game driven call by call: Game.run resets, then pumps events and    *)
(* updates frame by frame; handle_player_hit is the hook of a collision.   *)

\* the layouts standing for LEVEL_LAYOUT
LevelLayouts == Layouts \ {LayoutTunnel}

\* Game.__init__ parses the level layout and makes the player with the
\* default speed
InitGame ==
    /\ Init
    /\ maze.layout \in LevelLayouts
    /\ player.movement_speed = PLAYER_MOVE_TIME

World == [maze |-> maze, player |-> player, game |-> game]

\* the process has not been ended by a QUIT event
Running == last.raised # "SystemExit"

Game_reset ==
    /\ Running
    /\ \E w \in {game_reset(World)} :
        /\ maze' = w.maze
        /\ player' = w.player
        /\ game' = w.game
        /\ last' = Call("Game.reset", 0, None, player)

Game_handle_events(events) ==
    /\ Running
    /\ \E r \in {handle_events(World, events, 1)} :
        /\ maze' = r.w.maze
        /\ player' = r.w.player
        /\ game' = r.w.game
        /\ last' = [Call("Game.handle_events", 0, None, player)
                       EXCEPT !.arg = events, !.raised = r.raised]

Game_update(dt) ==
    /\ Running
    /\ \E w \in {game_update(World, dt)} :
        /\ maze' = w.maze
        /\ player' = w.player
        /\ game' = w.game
        /\ last' = Call("Game.update", dt, None, player)

Game_handle_player_hit ==
    /\ Running
    /\ player.lives > 3 - MaxHits
    /\ \E w \in {handle_player_hit(World)} :
        /\ maze' = w.maze
        /\ player' = w.player
        /\ game' = w.game
        /\ last' = Call("Game.handle_player_hit", 0, None, player)

EventQueues == UNION {[1..n -> Events] : n \in 0..MaxEvents}

NextGame ==
    \/ Game_reset
    \/ \E events \in EventQueues : Game_handle_events(events)
    \/ \E dt \in DTs : Game_update(dt)
    \/ Game_handle_player_hit

SpecGame == InitGame /\ [][NextGame]_vars

----------------------------------------------------------------------------
(* Vocabulary of the properties, stated without the operators above *)

InRow(m, y) == 0 <= y /\ y < m.height

InColumn(m, x) == 0 <= x /\ x < m.width

\* x reduced into 0..width-1
Wrap(x, width) == CHOOSE r \in 0..(width - 1) : \E k \in -2..2 : x = r + k * width

\* the move from cell c in direction d is legal
Legal(m, c, d) ==
    /\ InRow(m, c[2] + d[2])
    /\ <<Wrap(c[1] + d[1], m.width), c[2] + d[2]>> \notin m.wall_tiles

\* the cell reached from c by a legal move in direction d
Dest(m, c, d) == <<Wrap(c[1] + d[1], m.width), c[2] + d[2]>>

----------------------------------------------------------------------------
\* C9 (as stated): for every c whose y is within [0, height), whatever its x,
\* is_wall(c) is true exactly when c is in wall_tiles; for y outside
\* [0, height) is_wall(c) is true.
C9_IsWallIgnoresColumn ==
    last.op = "is_wall" =>
        IF InRow(maze, last.arg[2])
        THEN last.ret = (last.arg \in maze.wall_tiles)
        ELSE last.ret = TRUE

\* C9 (amended): inside the grid is_wall(c) is exactly membership of c in
\* wall_tiles; for every c with x outside [0, width) or y outside
\* [0, height) is_wall(c) is true.
C9_IsWall ==
    last.op = "is_wall" =>
        IF InRow(maze, last.arg[2]) /\ InColumn(maze, last.arg[1])
        THEN last.ret = (last.arg \in maze.wall_tiles)
        ELSE last.ret = TRUE

\* is_wall was asked about the unwrapped x = width on a valid row
C9_Witness ==
    /\ last.op = "is_wall"
    /\ InRow(maze, last.arg[2])
    /\ last.arg[1] = maze.width
    /\ last.ret = TRUE

\* C10: for an in-bounds position and a cardinal direction,
\* get_cell_in_direction returns None exactly when y + dy is outside
\* [0, height), and otherwise ((x + dx) mod width, y + dy), wall or not.
C10_CellInDirection ==
    last.op = "get_cell_in_direction" =>
        LET x == last.arg[1]
            y == last.arg[2]
            dx == last.direction[1]
            dy == last.direction[2]
        IN  /\ (last.ret = None) <=> ~InRow(maze, y + dy)
            /\ InRow(maze, y + dy) => last.ret = <<Wrap(x + dx, maze.width), y + dy>>
            /\ (x = maze.width - 1 /\ dx = 1) => last.ret = <<0, y>>
            /\ (x = 0 /\ dx = -1) => last.ret = <<maze.width - 1, y>>
            /\ (y = 0 /\ dy = -1) => last.ret = None
            /\ (y = maze.height - 1 /\ dy = 1) => last.ret = None

\* a step to the right from the last column of a maze at least 3 wide came
\* back as a wall tile of column 0
C10_Witness ==
    /\ last.op = "get_cell_in_direction"
    /\ maze.width >= 3
    /\ last.arg[1] = maze.width - 1
    /\ last.direction = RIGHT
    /\ last.ret = <<0, last.arg[2]>>
    /\ last.ret \in maze.wall_tiles

\* C5: can_move(d) is true exactly when the row y + d.y exists and the
\* wrapped cell is not a wall; a horizontal move is never refused for being
\* out of horizontal bounds.
C5_CanMove ==
    last.op = "can_move" =>
        LET c == last.pre.grid_pos
            d == last.direction
        IN  /\ last.ret = Legal(maze, c, d)
            /\ (c[1] = maze.width - 1 /\ d = RIGHT)
                  => last.ret = (<<0, c[2]>> \notin maze.wall_tiles)
            /\ (c[1] = 0 /\ d = LEFT)
                  => last.ret = (<<maze.width - 1, c[2]>> \notin maze.wall_tiles)

\* can_move allowed a step off the right edge of a maze at least 3 wide
C5_Witness ==
    /\ last.op = "can_move"
    /\ maze.width >= 3
    /\ last.pre.grid_pos[1] = maze.width - 1
    /\ last.direction = RIGHT
    /\ last.ret = TRUE

\* the maze the latest call was made on
premaze == last.m

\* a maze freshly parsed from the layout the current maze was built from
Fresh(m) == from_strings(m.layout)

\* C11: an eat_pellet on a tile holding a pellet or a power pellet reports
\* that kind, removes exactly that tile and lowers remaining_pellets() by
\* one; an eat_pellet on a tile holding nothing (never a pellet tile, already
\* eaten, or outside the grid) returns None and leaves pellets,
\* power_pellets and remaining_pellets() as they were.
C11_EatPellet ==
    last.op = "eat_pellet" =>
        LET c == last.arg
            held == IF c \in premaze.pellets THEN "."
                    ELSE IF c \in premaze.power_pellets THEN "o"
                    ELSE NoPellet
        IN  /\ last.ret = held
            /\ c \notin maze.pellets \cup maze.power_pellets
            /\ held = "." =>
                  /\ maze.pellets = premaze.pellets \ {c}
                  /\ maze.power_pellets = premaze.power_pellets
            /\ held = "o" =>
                  /\ maze.power_pellets = premaze.power_pellets \ {c}
                  /\ maze.pellets = premaze.pellets
            /\ held # NoPellet =>
                  remaining_pellets(maze) = remaining_pellets(premaze) - 1
            /\ held = NoPellet =>
                  /\ maze.pellets = premaze.pellets
                  /\ maze.power_pellets = premaze.power_pellets
                  /\ remaining_pellets(maze) = remaining_pellets(premaze)

\* a second eat_pellet on a power-pellet tile already eaten, another pellet
\* still in the maze
C11_Witness ==
    /\ last.op = "eat_pellet"
    /\ last.arg \in Fresh(maze).power_pellets
    /\ last.arg \notin premaze.power_pellets
    /\ last.ret = NoPellet
    /\ remaining_pellets(maze) > 0
    /\ remaining_pellets(maze) < remaining_pellets(Fresh(maze))

\* c is a cell of the grid that is not a wall
Open(m, c) == c \in Grid(m) /\ c \notin m.wall_tiles

\* t is one legal move away from c in the wraparound-aware walkable graph
Adjacent(m, c, t) == \E d \in key_to_direction : Legal(m, c, d) /\ t = Dest(m, c, d)

RECURSIVE Ball(_, _, _)
\* the cells at most n legal moves away from the open cell s
Ball(m, s, n) ==
    IF n = 0 THEN {s}
    ELSE LET inner == Ball(m, s, n - 1)
         IN  inner \cup {t \in Grid(m) : \E c \in inner : Adjacent(m, c, t)}

Connected(m, s, e) == e \in Ball(m, s, Cardinality(Grid(m)))

\* breadth-first distance between connected open cells
Distance(m, s, e) ==
    CHOOSE n \in 0..Cardinality(Grid(m)) :
        /\ e \in Ball(m, s, n)
        /\ \A k \in 0..(n - 1) : e \notin Ball(m, s, k)

\* C12: between two connected non-wall cells find_shortest_path returns a
\* sequence from s to e of non-wall cells, each one legal move (horizontal
\* wrap included) from the one before, with as many steps as the
\* breadth-first distance from s to e.
C12_ShortestPath ==
    last.op = "find_shortest_path" =>
        LET s == last.arg[1]
            e == last.arg[2]
            path == last.ret
        IN  (Open(maze, s) /\ Open(maze, e) /\ Connected(maze, s, e)) =>
                /\ path # None
                /\ path[1] = s
                /\ path[Len(path)] = e
                /\ \A i \in 1..Len(path) : Open(maze, path[i])
                /\ \A i \in 1..(Len(path) - 1) : Adjacent(maze, path[i], path[i + 1])
                /\ Len(path) - 1 = Distance(maze, s, e)

\* a shortest path of two steps whose first step crosses the seam
C12_Witness ==
    /\ last.op = "find_shortest_path"
    /\ last.ret # None
    /\ Len(last.ret) = 3
    /\ last.ret[1][1] = 0
    /\ last.ret[2][1] = maze.width - 1
    /\ maze.width > 2

\* C13: find_shortest_path ends after dequeuing each cell at most once,
\* returns [s] when s = e is not a wall, and returns None exactly when s is
\* a wall, e is a wall, or e cannot be reached from s.
C13_PathOrNone ==
    last.op = "find_shortest_path" =>
        LET s == last.arg[1]
            e == last.arg[2]
        IN  /\ last.steps <= Cardinality(Grid(maze))
            /\ (s = e /\ Open(maze, s)) => last.ret = <<s>>
            /\ last.ret = None <=>
                  \/ ~Open(maze, s)
                  \/ ~Open(maze, e)
                  \/ ~Connected(maze, s, e)

\* the search exhausted the start's region without meeting the open end
C13_Witness ==
    /\ last.op = "find_shortest_path"
    /\ Open(maze, last.arg[1])
    /\ Open(maze, last.arg[2])
    /\ last.ret = None
    /\ last.steps > 0

\* C14: find_open_tile ends after dequeuing preferred and each cell of the
\* grid at most once, and on a maze whose every cell is a wall it raises
\* instead of returning a tile.
C14_OpenTileTerminates ==
    last.op = "find_open_tile" =>
        /\ last.steps <= Cardinality(Grid(maze)) + 1
        /\ (\A c \in Grid(maze) : c \in maze.wall_tiles) =>
              /\ last.raised = "ValueError"
              /\ last.ret = None

\* the search from a cell of an all-wall maze visited the whole grid and raised
C14_Witness ==
    /\ last.op = "find_open_tile"
    /\ last.arg \in Grid(maze)
    /\ \A c \in Grid(maze) : c \in maze.wall_tiles
    /\ last.steps = Cardinality(Grid(maze))
    /\ last.raised = "ValueError"

\* non-wrapping Manhattan distance
Manhattan(a, b) ==
    (IF a[1] >= b[1] THEN a[1] - b[1] ELSE b[1] - a[1])
    + (IF a[2] >= b[2] THEN a[2] - b[2] ELSE b[2] - a[2])

\* C15: find_open_tile returns preferred when it is not a wall; otherwise,
\* for every preferred coordinate (outside the grid included), a maze with
\* an open tile yields an open tile at the least Manhattan distance from
\* preferred, and ValueError is raised only when the maze has no open tile.
C15_NearestOpenTile ==
    last.op = "find_open_tile" =>
        LET preferred == last.arg
            opens == {c \in Grid(maze) : Open(maze, c)}
        IN  /\ Open(maze, preferred) => last.ret = preferred /\ last.raised = ""
            /\ opens # {} =>
                  /\ last.raised = ""
                  /\ last.ret \in opens
                  /\ \A t \in opens :
                        Manhattan(preferred, last.ret) <= Manhattan(preferred, t)
            /\ last.raised = "ValueError" => opens = {}

\* C15 for preferred inside the grid or straight beside one of its edges
C15_NearestFromBeside ==
    (last.op = "find_open_tile"
        /\ (InColumn(maze, last.arg[1]) \/ InRow(maze, last.arg[2]))
        /\ \E c \in Grid(maze) : Manhattan(last.arg, c) <= 1)
    => C15_NearestOpenTile

\* C16: with n > 0 ghost spawns, the call made after k earlier ones returns
\* ghost_spawns[k mod n], advances the spawn counter by one and leaves
\* ghost_spawns (and the rest of the maze) alone; with no ghost spawn the
\* call raises and returns no coordinate.
C16_RoundRobin ==
    last.op = "next_ghost_spawn_location" =>
        LET spawns == Fresh(maze).ghost_spawns
            n == Len(spawns)
            k == premaze.amount_ghosts_spawned
        IN  /\ maze.ghost_spawns = spawns
            /\ n > 0 =>
                  /\ last.raised = ""
                  /\ \E i \in 0..(n - 1) :
                        /\ \E q \in 0..k : k = q * n + i
                        /\ last.ret = spawns[i + 1]
                  /\ maze = [premaze EXCEPT !.amount_ghosts_spawned = k + 1]
            /\ n = 0 =>
                  /\ last.raised # ""
                  /\ last.ret = None
                  /\ maze = premaze

\* the fourth call on three spawn points returned the first one again
C16_Witness ==
    /\ last.op = "next_ghost_spawn_location"
    /\ Len(maze.ghost_spawns) = 3
    /\ premaze.amount_ghosts_spawned = 3
    /\ last.ret = maze.ghost_spawns[1]
    /\ maze.amount_ghosts_spawned = 4

\* the rows of a layout are not all the same length
Ragged(layout) == \E i, j \in 1..Len(layout) : Len(layout[i]) # Len(layout[j])

\* C17: from_strings raises, and hands back no maze, whenever the layout is
\* empty or its rows are not all the same length.
C17_MalformedLayoutFails ==
    (last.op = "from_strings" /\ (Len(last.arg) = 0 \/ Ragged(last.arg)))
        => last.raised # ""

----------------------------------------------------------------------------
(* Player properties.  pre is the player the latest call was made on. *)

pre == last.pre

Idle(p) == p.target_grid_pos = None

\* the pair of columns interpolate_pixel_position treats as a seam crossing
SeamPair(m, c, t) ==
    \/ c[1] = m.width - 1 /\ t[1] = 0
    \/ c[1] = 0 /\ t[1] = m.width - 1

\* tile centre in sub-pixels, axis by axis
Centre(n) == (n * TILE_SIZE + TILE_SIZE \div 2) * SubPixel

C2_IdleIffNoElapsed ==
    /\ Idle(player) <=> player.movement_elapsed = 0
    /\ 0 <= player.movement_elapsed
    /\ player.movement_elapsed <= player.movement_speed

\* C2 (amended): after every call, an idle player has movement_elapsed = 0
\* and 0 <= movement_elapsed <= movement_speed; the converse holds after
\* every update with dt > 0.
C2_IdleHasNoElapsed ==
    /\ Idle(player) => player.movement_elapsed = 0
    /\ (last.op = "update" /\ last.dt > 0)
          => (Idle(player) <=> player.movement_elapsed = 0)
    /\ 0 <= player.movement_elapsed
    /\ player.movement_elapsed <= player.movement_speed

\* an update with dt > 0 left a move in flight with time on the clock
C2_Witness ==
    /\ last.op = "update"
    /\ last.dt > 0
    /\ ~Idle(player)
    /\ player.movement_elapsed > 0
    /\ player.movement_elapsed < player.movement_speed

\* C3: once a move to t is committed, update ticks and direction requests
\* leave target_grid_pos = t until the player arrives on t; a direction
\* request made mid-move changes next_direction only; under repeated ticks
\* with dt > 0 a moving player eventually comes to rest, by an update, on
\* the target it had.
C3_CommittedMoveCompletes ==
    /\ [][ ~Idle(player) =>
             \/ /\ player'.target_grid_pos = player.target_grid_pos
                /\ player'.grid_pos = player.grid_pos
             \/ /\ Idle(player')
                /\ player'.grid_pos = player.target_grid_pos ]_vars
    /\ [][ (~Idle(player) /\ last'.op = "set_next_direction") =>
             player' = [player EXCEPT !.next_direction = last'.direction] ]_vars
    /\ ~Idle(player) ~> ( /\ Idle(player)
                          /\ last.op = "update"
                          /\ ~Idle(pre)
                          /\ player.grid_pos = pre.target_grid_pos )

\* the player arrived on its committed target although a direction that
\* was legal from the tile it left had been requested during the move
C3_Witness ==
    /\ last.op = "update"
    /\ ~Idle(pre)
    /\ pre.next_direction # None
    /\ pre.next_direction # pre.current_direction
    /\ Legal(maze, pre.grid_pos, pre.next_direction)
    /\ Idle(player)
    /\ player.grid_pos = pre.target_grid_pos
    /\ player.grid_pos # Dest(maze, pre.grid_pos, pre.next_direction)

\* C4: pixel_pos is a function of grid_pos, target_grid_pos,
\* movement_elapsed and movement_speed: the tile centre when idle, the
\* maze's interpolation at progress elapsed/speed when moving.
C4_PixelDerived ==
    IF Idle(player)
    THEN player.pixel_pos = grid_to_pixel(player.grid_pos)
    ELSE player.pixel_pos =
           interpolate_pixel_position(maze, player.grid_pos, player.target_grid_pos,
                                      <<player.movement_elapsed, player.movement_speed>>)

\* the player has come to rest on a tile other than its spawn, after a move
\* across the seam of a maze at least 3 wide
C4_Witness ==
    /\ last.op = "update"
    /\ maze.width >= 3
    /\ ~Idle(pre)
    /\ pre.grid_pos[1] = maze.width - 1
    /\ pre.target_grid_pos[1] = 0
    /\ Idle(player)
    /\ player.grid_pos # player.spawn

\* C6: reset, from any state, leaves the player idle on the spawn tile with
\* no elapsed time and no current or queued direction.
C6_Reset ==
    last.op = "reset" =>
        /\ player.grid_pos = player.spawn
        /\ player.spawn = maze.player_spawn
        /\ Idle(player)
        /\ player.movement_elapsed = 0
        /\ player.current_direction = None
        /\ player.next_direction = None

\* reset was called mid-move, away from the spawn, with a direction queued
C6_Witness ==
    /\ last.op = "reset"
    /\ ~Idle(pre)
    /\ pre.movement_elapsed > 0
    /\ pre.grid_pos # pre.spawn
    /\ pre.next_direction # None
    /\ pre.current_direction # None

\* C7: an update of an idle player promotes a legal next_direction to
\* current_direction and clears the queue, keeps an illegal one queued and
\* current_direction as it was, and then commits the move if
\* current_direction is set and legal (facing = current_direction, target
\* the cell in that direction, reached within the same update when
\* dt >= movement_speed); an update of a moving player leaves
\* next_direction and current_direction alone.
C7_Promotion ==
    last.op = "update" =>
        LET c == pre.grid_pos
            nd == pre.next_direction
            cur == player.current_direction
            started == _try_start_move(maze, pre)
        IN  IF Idle(pre)
            THEN /\ (nd # None /\ Legal(maze, c, nd))
                     => (cur = nd /\ player.next_direction = None)
                 /\ ~(nd # None /\ Legal(maze, c, nd))
                     => (cur = pre.current_direction /\ player.next_direction = nd)
                 /\ (cur # None /\ Legal(maze, c, cur))
                     => /\ player.facing = cur
                        /\ started.target_grid_pos = Dest(maze, c, cur)
                        /\ started.facing = cur
                        /\ started.grid_pos = c
                        /\ IF last.dt < pre.movement_speed
                           THEN player.target_grid_pos = Dest(maze, c, cur)
                                /\ player.grid_pos = c
                           ELSE Idle(player) /\ player.grid_pos = Dest(maze, c, cur)
                 /\ ~(cur # None /\ Legal(maze, c, cur))
                     => (Idle(player) /\ player.grid_pos = c)
            ELSE /\ player.next_direction = nd
                 /\ cur = pre.current_direction

\* an idle player with a blocked queued turn kept it queued while the move
\* in its current direction was committed
C7_Witness ==
    /\ last.op = "update"
    /\ Idle(pre)
    /\ pre.next_direction # None
    /\ ~Legal(maze, pre.grid_pos, pre.next_direction)
    /\ pre.current_direction # None
    /\ player.next_direction = pre.next_direction
    /\ player.target_grid_pos = Dest(maze, pre.grid_pos, pre.current_direction)

\* C8: an update of an idle player whose next_direction and
\* current_direction are both unset or illegal changes nothing; facing
\* changes only when a move is committed or on reset.
C8_BlockedStaysIdle ==
    /\ ( /\ last.op = "update"
          /\ Idle(pre)
          /\ (pre.next_direction = None \/ ~Legal(maze, pre.grid_pos, pre.next_direction))
          /\ (pre.current_direction = None
                \/ ~Legal(maze, pre.grid_pos, pre.current_direction)) )
        => player = pre
    /\ player.facing # pre.facing =>
          \/ last.op = "reset"
          \/ /\ last.op = "update"
             /\ Idle(pre)
             /\ player.current_direction # None
             /\ Legal(maze, pre.grid_pos, player.current_direction)
             /\ player.facing = player.current_direction

\* a tick with dt > 0 on a player resting against a wall, its current and
\* queued directions both blocked and different from its facing
C8_Witness ==
    /\ last.op = "update"
    /\ last.dt > 0
    /\ Idle(pre)
    /\ pre.next_direction # None
    /\ pre.current_direction # None
    /\ ~Legal(maze, pre.grid_pos, pre.next_direction)
    /\ ~Legal(maze, pre.grid_pos, pre.current_direction)
    /\ pre.next_direction # pre.facing
    /\ player = pre

----------------------------------------------------------------------------
(* Game properties.  pregame is the game the latest call was made on. *)

pregame == last.g

\* the latest call was a Game.update that found the game not over
UpdateRan == last.op = "Game.update" /\ ~pregame.game_over

\* C18: win is true only if game_over is true and no pellet remains; and
\* after an update that ran while the game was not over, no pellet remaining
\* means win and game_over are both true.
C18_WinCondition ==
    /\ game.win => (game.game_over /\ remaining_pellets(maze) = 0)
    /\ (UpdateRan /\ remaining_pellets(maze) = 0) => (game.win /\ game.game_over)

\* the update that ate the last of several pellets won the game
C18_Witness ==
    /\ UpdateRan
    /\ remaining_pellets(premaze) = 1
    /\ remaining_pellets(Fresh(maze)) > 1
    /\ remaining_pellets(maze) = 0
    /\ game.win
    /\ game.game_over

\* C19: after an update that ran while the game was not over, the player's
\* tile holds no pellet and no power pellet, and the update removed no
\* pellet from any other tile: the pellet of a tile goes in the tick in
\* which grid_pos becomes that tile, and the tile a moving player is
\* heading for keeps its pellet until then.
C19_EatenOnArrival ==
    UpdateRan =>
        /\ player.grid_pos \notin maze.pellets \cup maze.power_pellets
        /\ premaze.pellets \ maze.pellets \subseteq {player.grid_pos}
        /\ premaze.power_pellets \ maze.power_pellets \subseteq {player.grid_pos}
        /\ (~Idle(player) /\ player.target_grid_pos # player.grid_pos) =>
              /\ player.target_grid_pos \in premaze.pellets
                    => player.target_grid_pos \in maze.pellets
              /\ player.target_grid_pos \in premaze.power_pellets
                    => player.target_grid_pos \in maze.power_pellets

\* the player, moving before the update toward a power pellet still in the
\* maze, arrived in this update and the pellet went with it
C19_Witness ==
    /\ UpdateRan
    /\ ~Idle(pre)
    /\ pre.target_grid_pos \in premaze.power_pellets
    /\ pre.grid_pos # pre.target_grid_pos
    /\ player.grid_pos = pre.target_grid_pos
    /\ player.grid_pos \notin maze.power_pellets
    /\ game.score = pregame.score + 50

\* the latest call ran Game.reset: called itself, or through the reset key
\* pumped while the game was over
ResetRan ==
    \/ last.op = "Game.reset"
    \/ /\ last.op = "Game.handle_events"
       /\ last.arg = <<"K_r">>
       /\ pregame.game_over

\* C20: after Game.reset the maze's pellets, power pellets, walls and spawn
\* counter are those of a maze freshly parsed from the layout, the player is
\* idle at the player spawn with no queued and no current direction, and
\* score, power_time_remaining, game_over and win are 0, 0, false, false.
C20_GameReset ==
    ResetRan =>
        /\ maze.pellets = Fresh(premaze).pellets
        /\ maze.power_pellets = Fresh(premaze).power_pellets
        /\ maze.wall_tiles = Fresh(premaze).wall_tiles
        /\ maze.amount_ghosts_spawned = 0
        /\ Idle(player)
        /\ player.grid_pos = Fresh(premaze).player_spawn
        /\ player.movement_elapsed = 0
        /\ player.next_direction = None
        /\ player.current_direction = None
        /\ game.score = 0
        /\ game.power_time_remaining = 0
        /\ ~game.game_over
        /\ ~game.win

\* reset called mid-move, pellets eaten, power running, a direction queued
C20_Witness ==
    /\ last.op = "Game.reset"
    /\ ~Idle(pre)
    /\ pre.next_direction # None
    /\ remaining_pellets(premaze) < remaining_pellets(maze)
    /\ pregame.score > 0
    /\ pregame.power_time_remaining > 0

----------------------------------------------------------------------------
(* Construction of the player *)

\* C21: a newly constructed player stands on a tile that is not a wall: on
\* the maze's player spawn when that is not a wall, on a safe tile
\* otherwise (a layout without a 'P' marker, whose spawn defaults to
\* (0, 0), included).
C21_SpawnNotWall ==
    last.op = "__init__" =>
        /\ (\E c \in Grid(maze) : Open(maze, c)) => Open(maze, player.grid_pos)
        /\ Open(maze, maze.player_spawn) => player.grid_pos = maze.player_spawn

----------------------------------------------------------------------------
(* Interpolation across the seam *)

\* one tile in sub-pixels
TileSub == TILE_SIZE * SubPixel

\* progress pr = <<k, s>> of one tile, in sub-pixels (exact: SubPixel is a
\* multiple of every speed)
Travel(pr) == (pr[1] * TileSub) \div pr[2]

\* the latest call interpolated from start to end, both in row y
SeamCall(start_x, end_x) ==
    /\ last.op = "interpolate_pixel_position"
    /\ last.arg[1][1] = start_x
    /\ last.arg[2][1] = end_x
    /\ last.arg[1][2] = last.arg[2][2]

\* the x returned lies in [0, pixel_width) and y is the row's centre
InRangeOnRow ==
    /\ 0 <= last.ret[1]
    /\ last.ret[1] < pixel_width(maze)
    /\ last.ret[2] = Centre(last.arg[1][2])

\* from (W-1, y) to (0, y): x is the start's centre plus the travel, modulo
\* the pixel width
SeamRightward ==
    SeamCall(maze.width - 1, 0) =>
        /\ InRangeOnRow
        /\ last.ret[1] = (Centre(maze.width - 1) + Travel(last.arg[3])) % pixel_width(maze)

\* from (0, y) to (W-1, y): x is the start's centre minus the travel, modulo
\* the pixel width
SeamLeftward ==
    SeamCall(0, maze.width - 1) =>
        /\ InRangeOnRow
        /\ last.ret[1] = (Centre(0) - Travel(last.arg[3]) + pixel_width(maze)) % pixel_width(maze)

\* C22 (as stated): for every width W, the move from (W-1, y) to (0, y)
\* adds the travel to the start's centre x and the move from (0, y) to
\* (W-1, y) subtracts it, modulo the pixel width, with y the row's centre.
C22_SeamBothWays == SeamRightward /\ SeamLeftward

\* C22 (amended): the same, the subtracting case for W >= 2 only; with
\* W = 1 the two cells are one and the travel is added.
C22_SeamInterpolation ==
    /\ SeamRightward
    /\ maze.width >= 2 => SeamLeftward

\* past half of the way from column 0 leftward through the seam of a maze
\* three columns wide: x has come out beyond the centre of the last column
C22_Witness ==
    /\ SeamCall(0, maze.width - 1)
    /\ maze.width = 3
    /\ last.arg[3][1] < last.arg[3][2]
    /\ 2 * last.arg[3][1] > last.arg[3][2]
    /\ last.ret[1] > Centre(maze.width - 1)

----------------------------------------------------------------------------
(* Where the player can be *)

\* C23: a player whose spawn is an in-bounds tile that is not a wall stays,
\* through every set_next_direction, update and reset, on an in-bounds tile
\* that is not a wall, and a target, whenever one is set, is an in-bounds
\* tile that is not a wall, one legal move (horizontal wrap included) from
\* grid_pos.
C23_OnOpenTiles ==
    Open(maze, player.spawn) =>
        /\ Open(maze, player.grid_pos)
        /\ ~Idle(player) =>
              /\ Open(maze, player.target_grid_pos)
              /\ Adjacent(maze, player.grid_pos, player.target_grid_pos)

\* away from the spawn, the player has set out through the seam
C23_Witness ==
    /\ Open(maze, player.spawn)
    /\ last.op = "update"
    /\ player.grid_pos # player.spawn
    /\ ~Idle(player)
    /\ maze.width > 2
    /\ SeamPair(maze, player.grid_pos, player.target_grid_pos)

----------------------------------------------------------------------------
(* One update, one tile *)

\* the update brought a move to its end: one in flight before it, or one it
\* started itself
Arrived ==
    /\ last.op = "update"
    /\ \/ ~Idle(pre) /\ pre.movement_elapsed + last.dt >= pre.movement_speed
       \/ /\ Idle(pre)
          /\ ~Idle(_try_start_move(maze, pre))
          /\ last.dt >= pre.movement_speed

\* C24: one update moves grid_pos by at most one legal move, whatever dt;
\* the elapsed time never passes movement_speed and what is left over at an
\* arrival is dropped (the elapsed time is 0 again); the update of an
\* arrival commits no further move, so every tile transition ends in a
\* state, seen after that update, in which the player is idle.
C24_OneTilePerUpdate ==
    last.op = "update" =>
        /\ \/ player.grid_pos = pre.grid_pos
           \/ Adjacent(maze, pre.grid_pos, player.grid_pos)
        /\ player.movement_elapsed < player.movement_speed
        /\ Arrived =>
              /\ Idle(player)
              /\ player.movement_elapsed = 0
              /\ player.grid_pos \in {pre.target_grid_pos,
                                       _try_start_move(maze, pre).target_grid_pos}
        /\ player.grid_pos # pre.grid_pos => Arrived

\* an idle player started and finished a move in one update whose dt was
\* more than twice the time of a move, and rests although the way on in
\* its direction is free
C24_Witness ==
    /\ last.op = "update"
    /\ Idle(pre)
    /\ last.dt > 2 * pre.movement_speed
    /\ player.grid_pos # pre.grid_pos
    /\ Idle(player)
    /\ player.current_direction # None
    /\ Legal(maze, player.grid_pos, player.current_direction)
    /\ Dest(maze, player.grid_pos, player.current_direction) # pre.grid_pos

----------------------------------------------------------------------------
(* The game once it is over *)

\* the latest call left the maze, the player and the game's fields as they
\* were
WorldUnchanged ==
    /\ maze = premaze
    /\ player = pre
    /\ game = pregame

\* the events the latest handle_events call pumped
Pumped == {last.arg[i] : i \in 1..Len(last.arg)}

\* C25: while the game is over an update changes nothing (player, maze,
\* score, power_time_remaining and win included), and pumped events change
\* nothing (next_direction included) unless the reset key is among them;
\* while the game is not over the reset key changes nothing.
C25_FrozenWhenOver ==
    /\ (last.op = "Game.update" /\ pregame.game_over) => WorldUnchanged
    /\ (last.op = "Game.handle_events" /\ pregame.game_over /\ "K_r" \notin Pumped)
          => WorldUnchanged
    /\ (last.op = "Game.handle_events" /\ ~pregame.game_over /\ Pumped \subseteq {"K_r"})
          => WorldUnchanged

\* a direction key pumped after a win, another direction than the queued one
C25_Witness ==
    /\ last.op = "Game.handle_events"
    /\ pregame.game_over
    /\ pregame.win
    /\ last.arg = <<"K_LEFT">>
    /\ pre.next_direction # LEFT
    /\ player.next_direction = pre.next_direction

----------------------------------------------------------------------------
(* The score *)

\* the latest call rebuilt the maze: Game.reset, or the reset key pumped
\* while the game was over
Rebuilt ==
    \/ last.op \in {"__init__", "Game.reset"}
    \/ last.op = "Game.handle_events" /\ pregame.game_over /\ "K_r" \in Pumped

\* pellets and power pellets gone from the maze since it was built
Eaten(m) == Cardinality(Fresh(m).pellets \ m.pellets)

EatenPower(m) == Cardinality(Fresh(m).power_pellets \ m.power_pellets)

\* C26: the score is 10 for each pellet and 50 for each power pellet gone
\* from the maze since it was built; no call but a reset lowers it; the
\* walls never change; handle_player_hit and the pumping of events (with
\* Player.reset and set_next_direction in them) leave pellets and power
\* pellets alone, and an update (with Player.update in it) takes them only
\* through eat_pellet at the player's tile.
C26_ScoreCountsPellets ==
    /\ game.score = 10 * Eaten(maze) + 50 * EatenPower(maze)
    /\ maze.pellets \subseteq Fresh(maze).pellets
    /\ maze.power_pellets \subseteq Fresh(maze).power_pellets
    /\ maze.wall_tiles = Fresh(maze).wall_tiles
    /\ ~Rebuilt =>
          /\ game.score >= pregame.score
          /\ maze.wall_tiles = premaze.wall_tiles
          /\ last.op # "Game.update" =>
                /\ maze.pellets = premaze.pellets
                /\ maze.power_pellets = premaze.power_pellets
          /\ last.op = "Game.update" =>
                maze = eat_pellet(premaze, player.grid_pos).maze

\* a hit taken with a pellet and a power pellet eaten: the score stays 60
C26_Witness ==
    /\ last.op = "Game.handle_player_hit"
    /\ Eaten(maze) = 1
    /\ EatenPower(maze) = 1
    /\ game.score = 60
    /\ pregame.score = 60
    /\ player.grid_pos # pre.grid_pos

====
